---- MODULE Spec2Model ----
(***************************************************************************)
(* The TPG261 gauge controller client (mod_Pfieffer_TPG261) as a state     *)
(* machine: the serial channel, the two-phase command exchange             *)
(* (command / acknowledgement / ENQ / response line) that every method     *)
(* repeats, the constructor's initialization sequence and close().         *)
(*                                                                         *)
(* Bytes are tokens: the control bytes are named ("ACK", "NAK", "ENQ",     *)
(* "CR", "LF", "SP"), "HI" is a byte >= 0x80 that is not valid UTF-8, and  *)
(* every other byte is the one-character string of its ASCII character.    *)
(* A line is a sequence of tokens.  The channel is a pyserial Serial       *)
(* object with timeout=1: readline() returns the bytes up to and including *)
(* LF, or whatever arrived before the timeout (possibly nothing); write()  *)
(* on a port that is not open raises PortNotOpenError; close() releases    *)
(* the port only when it is open.                                          *)
(***************************************************************************)
EXTENDS Integers, Sequences, FiniteSets, TLC

\* gauge indexes the caller passes are 1..MaxGauge (the device has gauges 1 and 2)
MaxGauge == 3
\* unit and filter codes the caller passes are 0..MaxCode
MaxCode == 2
\* status digits the device may send are 0..MaxStatus (the enumeration is 0..6)
MaxStatus == 7
\* close() is called at most MaxCloses times
MaxCloses == 2
\* at most MaxOwed replies of the device are outstanding at a time
MaxOwed == 2
\* the polling loop of the application logs at most MaxSamples samples
MaxSamples == 2

-----------------------------------------------------------------------------
(* Wire constants *)

CR == "CR"
LF == "LF"
ETX == "ETX"
ENQ == "ENQ"
ACK == "ACK"
NAK == "NAK"
SP == "SP"
HI == "HI"

\* what a method returns is the tuple of the values returned; None is the empty tuple
None == <<>>

DigitChars == <<"0", "1", "2", "3", "4", "5", "6", "7", "8", "9">>

IsDigit(c) == \E i \in 1..10 : DigitChars[i] = c

DigitVal(c) == (CHOOSE i \in 1..10 : DigitChars[i] = c) - 1

\* bytes.strip() and the whitespace int()/float() skip: here SP, CR, LF
IsSpace(c) == c \in {SP, CR, LF}

-----------------------------------------------------------------------------
(* Python conversions used by the client *)

RECURSIVE LStrip(_)
LStrip(s) == IF s # <<>> /\ IsSpace(Head(s)) THEN LStrip(Tail(s)) ELSE s

RECURSIVE RStrip(_)
RStrip(s) ==
    IF s # <<>> /\ IsSpace(s[Len(s)]) THEN RStrip(SubSeq(s, 1, Len(s) - 1)) ELSE s

\* bytes.strip() / str.strip(): drop leading and trailing whitespace
Strip(s) == RStrip(LStrip(s))

\* bytes.decode('utf-8') succeeds unless a byte is not valid UTF-8
Decodable(s) == \A i \in 1..Len(s) : s[i] # HI

\* index of the first "," in s, 0 when there is none
RECURSIVE FirstComma(_, _)
FirstComma(s, i) ==
    IF i > Len(s) THEN 0 ELSE IF s[i] = "," THEN i ELSE FirstComma(s, i + 1)

\* str.split(","): the fields between the commas; the empty string has one field
RECURSIVE Split(_)
Split(s) ==
    LET k == FirstComma(s, 1)
    IN  IF k = 0 THEN <<s>>
        ELSE <<SubSeq(s, 1, k - 1)>> \o Split(SubSeq(s, k + 1, Len(s)))

AllDigits(s) == \A i \in 1..Len(s) : IsDigit(s[i])

RECURSIVE DigitsVal(_)
DigitsVal(s) ==
    IF s = <<>> THEN 0 ELSE 10 * DigitsVal(SubSeq(s, 1, Len(s) - 1)) + DigitVal(s[Len(s)])

HasSign(s) == s # <<>> /\ Head(s) \in {"+", "-"}

Unsigned(s) == IF HasSign(s) THEN Tail(s) ELSE s

SignOf(s) == IF s # <<>> /\ Head(s) = "-" THEN -1 ELSE 1

\* int(str) accepts surrounding whitespace, an optional sign and decimal digits
IntOk(s) == LET u == Unsigned(Strip(s)) IN u # <<>> /\ AllDigits(u)

\* int(str) for a string IntOk accepts
IntVal(s) == LET t == Strip(s) IN SignOf(t) * DigitsVal(Unsigned(t))

\* index of the first occurrence of one of the tokens cs in s, 0 when none
RECURSIVE FirstOf(_, _, _)
FirstOf(s, cs, i) ==
    IF i > Len(s) THEN 0 ELSE IF s[i] \in cs THEN i ELSE FirstOf(s, cs, i + 1)

\* the mantissa part of a float literal, before any exponent, without sign
MantStr(s) ==
    LET u == Unsigned(Strip(s))
        e == FirstOf(u, {"e", "E"}, 1)
    IN  IF e = 0 THEN u ELSE SubSeq(u, 1, e - 1)

\* the exponent part of a float literal after e/E; <<"0">> when there is none
ExpStr(s) ==
    LET u == Unsigned(Strip(s))
        e == FirstOf(u, {"e", "E"}, 1)
    IN  IF e = 0 THEN <<"0">> ELSE SubSeq(u, e + 1, Len(u))

IntPart(m) ==
    LET d == FirstOf(m, {"."}, 1) IN IF d = 0 THEN m ELSE SubSeq(m, 1, d - 1)

FracPart(m) ==
    LET d == FirstOf(m, {"."}, 1) IN IF d = 0 THEN <<>> ELSE SubSeq(m, d + 1, Len(m))

\* float(str) accepts [sign] digits [. digits] [e|E [sign] digits] with at
\* least one mantissa digit (inf and nan are outside the byte alphabet)
FloatOk(s) ==
    LET m == MantStr(s)
        x == ExpStr(s)
    IN  /\ AllDigits(IntPart(m))
        /\ AllDigits(FracPart(m))
        /\ Len(IntPart(m)) + Len(FracPart(m)) >= 1
        /\ Unsigned(x) # <<>>
        /\ AllDigits(Unsigned(x))

\* a decimal number m * 10^e with trailing zeros of m moved into e; zero is <<0, 0>>
RECURSIVE Normal(_, _)
Normal(m, e) ==
    IF m = 0 THEN <<0, 0>>
    ELSE IF m % 10 = 0 THEN Normal(m \div 10, e + 1)
    ELSE <<m, e>>

\* float(str) for a string FloatOk accepts, as <<mantissa, exponent of ten>>
FloatVal(s) ==
    LET m == MantStr(s)
        x == ExpStr(s)
        mag == DigitsVal(IntPart(m) \o FracPart(m))
    IN  IF SignOf(Strip(s)) = 1
        THEN Normal(mag, SignOf(x) * DigitsVal(Unsigned(x)) - Len(FracPart(m)))
        ELSE LET n == Normal(mag, SignOf(x) * DigitsVal(Unsigned(x)) - Len(FracPart(m)))
             IN  <<0 - n[1], n[2]>>

\* decimal digits of a natural number
RECURSIVE NatStr(_)
NatStr(n) ==
    IF n < 10 THEN <<DigitChars[n + 1]>>
    ELSE NatStr(n \div 10) \o <<DigitChars[(n % 10) + 1]>>

\* '%i' % n
FmtInt(n) == IF n < 0 THEN <<"-">> \o NatStr(0 - n) ELSE NatStr(n)

\* '%.3f' % x for x >= 0 given in units of 10^-4: rounded to three decimals
Fmt3(x) ==
    LET t == (x + 5) \div 10
    IN  NatStr(t \div 1000) \o <<".">>
          \o <<DigitChars[((t \div 100) % 10) + 1],
               DigitChars[((t \div 10) % 10) + 1],
               DigitChars[(t % 10) + 1]>>

-----------------------------------------------------------------------------
(* The methods of pfieffer_single_gauge_TPG261: command, acknowledgement   *)
(* check and interpretation of the response line.  A method call is a      *)
(* record [name, a, b]; a and b are its integer arguments (0 when unused). *)
(* A calibration factor is given in units of 10^-4.                        *)

messages ==
    [s \in 0..6 |->
        CASE s = 0 -> "Passed"
          [] s = 1 -> "Underrange"
          [] s = 2 -> "Overrange"
          [] s = 3 -> "Sensor Error"
          [] s = 4 -> "Sensor off"
          [] s = 5 -> "No Sensor"
          [] s = 6 -> "ID Error"]

units == [u \in 0..2 |-> CASE u = 0 -> "mbar/bar" [] u = 1 -> "Torr" [] u = 2 -> "Pascal"]

Filter ==
    [c \in 0..2 |-> CASE c = 0 -> "fast" [] c = 1 -> "medium (default)" [] c = 2 -> "slow"]

Resolution == [r \in 2..3 |-> CASE r = 2 -> "2 digits" [] r = 3 -> "3 digits"]

\* the resolution set_display_resolution requests
resolution == 3

\* the calibration factor 1 (as 10^-4 units) sent for the gauge not addressed
UnitCal == 10000

Outcome(o, r, p) == [outcome |-> o, result |-> r, printed |-> p]

\* get_pressure raising on a status other than 0 instead of printing its label
get_pressureRaisesOnStatus(line) ==
    LET s == Strip(line)
        f == Split(s)
    IN  IF ~Decodable(s) THEN Outcome("UnicodeDecodeError", None, <<>>)
        ELSE IF Len(f) # 2 THEN Outcome("ValueError", None, <<>>)
        ELSE IF ~IntOk(f[1]) THEN Outcome("ValueError", None, <<>>)
        ELSE IF IntVal(f[1]) # 0 THEN Outcome("PfeifferException", None, <<>>)
        ELSE IF ~FloatOk(f[2]) THEN Outcome("ValueError", None, <<>>)
        ELSE Outcome("return", <<messages[0], FloatVal(f[2])>>, <<>>)

\* status, value = line.split(",") ... return messages[status], float(value)
get_pressure(line) ==
    LET s == Strip(line)
        f == Split(s)
    IN  IF ~Decodable(s) THEN Outcome("UnicodeDecodeError", None, <<>>)
        ELSE IF Len(f) # 2 THEN Outcome("ValueError", None, <<>>)
        ELSE IF ~IntOk(f[1]) THEN Outcome("ValueError", None, <<>>)
        ELSE IF IntVal(f[1]) \notin DOMAIN messages THEN Outcome("KeyError", None, <<>>)
        ELSE LET status == IntVal(f[1])
                 p == IF status # 0 THEN <<messages[status]>> ELSE <<>>
             IN  IF ~FloatOk(f[2]) THEN Outcome("ValueError", None, p)
                 ELSE Outcome("return", <<messages[status], FloatVal(f[2])>>, p)

\* gauge_1, gauge_2 = line.split(','); return gauge_1, gauge_2
get_gauge_type(line) ==
    LET s == Strip(line)
        f == Split(s)
    IN  IF ~Decodable(s) THEN Outcome("UnicodeDecodeError", None, <<>>)
        ELSE IF Len(f) # 2 THEN Outcome("ValueError", None, <<>>)
        ELSE Outcome("return", <<f[1], f[2]>>, <<>>)

\* G1_cal, G2_cal = line.split(','); return G1_cal, G2_cal
get_calibration_factor(line) ==
    LET s == Strip(line)
        f == Split(s)
    IN  IF ~Decodable(s) THEN Outcome("UnicodeDecodeError", None, <<>>)
        ELSE IF Len(f) # 2 THEN Outcome("ValueError", None, <<>>)
        ELSE Outcome("return", <<f[1], f[2]>>, <<>>)

\* G1_cal, G2_cal = line.split(','); return G1_cal (gauge 1) or G2_cal (gauge 2)
set_calibration_factor(gauge, line) ==
    LET s == Strip(line)
        f == Split(s)
    IN  IF ~Decodable(s) THEN Outcome("UnicodeDecodeError", None, <<>>)
        ELSE IF Len(f) # 2 THEN Outcome("ValueError", None, <<>>)
        ELSE Outcome("return", <<f[gauge]>>, <<>>)

\* set_units looking the unit up by the response text instead of its integer
set_unitsTextKey(line) ==
    LET s == Strip(line)
    IN  IF ~Decodable(s) THEN Outcome("UnicodeDecodeError", None, <<>>)
        ELSE Outcome("KeyError", None, <<>>)

\* return print(f'... {units[int(line)]}')
set_units(line) ==
    LET s == Strip(line)
    IN  IF ~Decodable(s) THEN Outcome("UnicodeDecodeError", None, <<>>)
        ELSE IF ~IntOk(s) THEN Outcome("ValueError", None, <<>>)
        ELSE IF IntVal(s) \notin DOMAIN units THEN Outcome("KeyError", None, <<>>)
        ELSE Outcome("return", None, <<units[IntVal(s)]>>)

\* gauge1, gauge2 = line.split(','); return print(f'... {Filter[int(gauge1)]} ... {Filter[int(gauge2)]}')
set_filter(line) ==
    LET s == Strip(line)
        f == Split(s)
    IN  IF ~Decodable(s) THEN Outcome("UnicodeDecodeError", None, <<>>)
        ELSE IF Len(f) # 2 THEN Outcome("ValueError", None, <<>>)
        ELSE IF ~IntOk(f[1]) THEN Outcome("ValueError", None, <<>>)
        ELSE IF IntVal(f[1]) \notin DOMAIN Filter THEN Outcome("KeyError", None, <<>>)
        ELSE IF ~IntOk(f[2]) THEN Outcome("ValueError", None, <<>>)
        ELSE IF IntVal(f[2]) \notin DOMAIN Filter THEN Outcome("KeyError", None, <<>>)
        ELSE Outcome("return", None, <<Filter[IntVal(f[1])], Filter[IntVal(f[2])]>>)

\* return print(f'... {Resolution[int(res)]} digits.')
set_display_resolution(line) ==
    LET s == Strip(line)
    IN  IF ~Decodable(s) THEN Outcome("UnicodeDecodeError", None, <<>>)
        ELSE IF ~IntOk(s) THEN Outcome("ValueError", None, <<>>)
        ELSE IF IntVal(s) \notin DOMAIN Resolution THEN Outcome("KeyError", None, <<>>)
        ELSE Outcome("return", None, <<Resolution[IntVal(s)]>>)

\* the CAL command built as for gauge 1 whichever gauge is addressed
CalArgsGauge1Only(gauge, cal) == <<cal, UnitCal>>

\* the two factors of the CAL command: 'CAL,%.3f,%.3f' % (cal, 1) for gauge 1,
\* 'CAL,%.3f,%.3f' % (1, cal) for gauge 2
CalArgs(gauge, cal) == IF gauge = 1 THEN <<cal, UnitCal>> ELSE <<UnitCal, cal>>

\* the bytes a method writes first: the command and CR LF
Command(c) ==
    (CASE c.name = "get_pressure" -> <<"P", "R">> \o FmtInt(c.a)
       [] c.name = "get_gauge_type" -> <<"T", "I", "D">>
       [] c.name = "get_calibration_factor" -> <<"C", "A", "l">>
       [] c.name = "set_calibration_factor" ->
            <<"C", "A", "L", ",">> \o Fmt3(CalArgs(c.a, c.b)[1])
                \o <<",">> \o Fmt3(CalArgs(c.a, c.b)[2])
       [] c.name = "set_units" -> <<"U", "N", "I", ",">> \o FmtInt(c.a)
       [] c.name = "set_filter" ->
            <<"F", "I", "L", ",">> \o FmtInt(c.a) \o <<",">> \o FmtInt(c.b)
       [] c.name = "set_display_resolution" -> <<"D", "C", "D", ",">> \o FmtInt(resolution))
    \o <<CR, LF>>

\* get_calibration_factor checking the acknowledgement like the other methods
ChecksAckAlways(c) == TRUE

\* whether the method compares the acknowledgement line with ACK
ChecksAck(c) == c.name # "get_calibration_factor"

\* set_calibration_factor treating every gauge other than 1 as gauge 2
DoesIOAlways(c) == TRUE

\* whether the method touches the channel at all: set_calibration_factor
\* has a branch for gauge 1 and one for gauge 2 and nothing else
DoesIO(c) == c.name = "set_calibration_factor" => c.a \in {1, 2}

\* what the method makes of the response line
Parse(c, line) ==
    CASE c.name = "get_pressure" -> get_pressure(line)
      [] c.name = "get_gauge_type" -> get_gauge_type(line)
      [] c.name = "get_calibration_factor" -> get_calibration_factor(line)
      [] c.name = "set_calibration_factor" -> set_calibration_factor(c.a, line)
      [] c.name = "set_units" -> set_units(line)
      [] c.name = "set_filter" -> set_filter(line)
      [] c.name = "set_display_resolution" -> set_display_resolution(line)

Op(n, a, b) == [name |-> n, a |-> a, b |-> b]

NoOp == Op("none", 0, 0)

\* __init__ setting the display resolution before the calibration factors
InitOpResolutionFirst(k) ==
    CASE k = 1 -> Op("set_filter", 1, 1)
      [] k = 2 -> Op("set_display_resolution", 0, 0)
      [] k = 3 -> Op("set_calibration_factor", 1, UnitCal)
      [] k = 4 -> Op("set_calibration_factor", 2, UnitCal)

\* the k-th method call of __init__: set_filter(), set_calibration_factor(1, 1),
\* set_calibration_factor(2, 1), set_display_resolution()
InitOp(k) ==
    CASE k = 1 -> Op("set_filter", 1, 1)
      [] k = 2 -> Op("set_calibration_factor", 1, UnitCal)
      [] k = 3 -> Op("set_calibration_factor", 2, UnitCal)
      [] k = 4 -> Op("set_display_resolution", 0, 0)

\* number of method calls in __init__
InitLen == 4

-----------------------------------------------------------------------------
(* Inputs: what a caller may pass and what the device may send *)

\* calibration factors a caller passes, in units of 10^-4: 0.5, 1, 1.2346
CalInputs == {5000, 10000, 12346}

Calls ==
    {Op("get_pressure", g, 0) : g \in 1..MaxGauge}
      \cup {Op("get_gauge_type", 0, 0), Op("get_calibration_factor", 0, 0),
            Op("set_display_resolution", 0, 0)}
      \cup {Op("set_calibration_factor", g, x) : g \in 1..MaxGauge, x \in CalInputs}
      \cup {Op("set_units", u, 0) : u \in 0..MaxCode}
      \cup {Op("set_filter", c1, c2) : c1 \in 0..MaxCode, c2 \in 0..MaxCode}

Terminated(s) == s \o <<CR, LF>>

\* lines the device may send: acknowledgements, well-formed and malformed responses
DeviceLines ==
    {Terminated(<<ACK>>), Terminated(<<NAK>>), <<SP, ACK, CR, LF>>,
     Terminated(<<ACK, ACK>>)}
      \cup {Terminated(NatStr(s) \o <<",", "1">>) : s \in 0..MaxStatus}
      \cup {Terminated(NatStr(c)) : c \in 0..3}
      \cup {Terminated(<<"0", ",", "1", ".", "0", "e", "-", "5">>),
            Terminated(<<"0", ",", "x">>),
            Terminated(<<"x", ",", "1">>),
            Terminated(<<"1", ".", "0", "0", "0", ",", "1", ".", "0", "0", "0">>),
            Terminated(<<"0", ".", "5", "0", "0", ",", "1", ".", "2", "3", "5">>),
            Terminated(<<"1", ",", "2", ",", "3">>),
            Terminated(<<HI>>),
            <<"1", ",">>}

\* what readline() may return: a line, or nothing when the read times out
ReadLines == DeviceLines \cup {<<>>}

\* the lines and the timeout the device of the application's runs answers with
GuiReadLines ==
    {<<>>, Terminated(<<ACK>>), Terminated(<<"0", ",", "1">>),
     Terminated(<<"4", ",", "1">>), Terminated(<<"3">>)}

-----------------------------------------------------------------------------
(* State *)

VARIABLES
    ser,         \* the serial port: "none" (never opened), "open", "closed"
    releases,    \* how often the port was physically released
    closeCalls,  \* how often close() was called
    client,      \* the client object: "absent", "constructing", "live", "failed"
    stage,       \* the number of the __init__ method call in progress, 0 before
    top,         \* the caller's current or last call: "none", "__init__", a method, "close"
    op,          \* the method executing or last executed
    pc,          \* position in the method: "idle", "start", "ack", "enq", "resp", "ret"
    trace,       \* channel I/O of the current method invocation, in order
    written,     \* the commands written during the caller's current or last call
    outcome,     \* of the caller's call: "none" while it runs, "return" or the exception
    result,      \* the tuple of values returned
    printed,     \* the labels a method printed during the caller's call
    owed,        \* the replies the device has still to deliver, oldest first: "cur"
                 \* answers a write of the current method invocation, "old" an earlier one
    lastReadFrom, \* what the last readline() of the invocation consumed: "none" before
                 \* any read, "timeout", or the tag of the reply it returned
    handler,     \* the application code that runs: "off" (no application: any caller),
                 \* "main", "none" (event loop idle), "update", "cal_g1", "cal_g2",
                 \* "dead" (uncaught exception at startup), "done" (window destroyed)
    hstep,       \* the statement of the handler that is executing
    timer,       \* whether a root.after callback of update is pending
    read_only,   \* TPG261_data.read_only; pstatus is the status label of the reading
                 \* the pressure was taken from
    samples,     \* the logged samples: P_list and state_list, index by index
    marker,      \* the lines of controller_ready.txt
    bpc          \* the controllers of the startup handshake: position of each

vars ==
    <<ser, releases, closeCalls, client, stage, top, op, pc, trace, written,
      outcome, result, printed, owed, lastReadFrom,
      handler, hstep, timer, read_only, samples, marker, bpc>>

\* the state of the client and its channel
cvars ==
    <<ser, releases, closeCalls, client, stage, top, op, pc, trace, written,
      outcome, result, printed, owed, lastReadFrom>>

\* the state of the application around the client
gvars == <<handler, hstep, timer, read_only, samples, marker, bpc>>

expected_controllers ==
    <<"Substrate_Controller", "TPG261_Controller", "MKS_Pressure_Controller",
      "BKP_Arb_Waveform_Controller">>

Controllers == {expected_controllers[i] : i \in 1..Len(expected_controllers)}

\* f'{controller} is ready\n'
ReadyLine(c) == <<c, " is ready", LF>>

\* the variables of read_only before the first reading
NoData ==
    [pressure |-> <<0, 0>>, pstatus |-> "", state |-> "", sensor1 |-> <<>>,
     sensor2 |-> <<>>, cal_g1 |-> <<>>, cal_g2 |-> <<>>]

W(b) == [kind |-> "write", data |-> b]

R(b) == [kind |-> "read", data |-> b]

\* a close() that releases the port without looking whether it is open
ReleasedUnguarded(s) == 1

\* physical releases Serial.close() performs on a port in state s
Released(s) == IF s = "open" THEN 1 ELSE 0

\* no application: the client is driven by an arbitrary caller
AppOff ==
    /\ handler = "off"
    /\ hstep = 0
    /\ timer = FALSE
    /\ read_only = NoData
    /\ samples = <<>>
    /\ marker = <<>>
    /\ bpc = [c \in Controllers |-> "off"]

\* before the client is constructed
ClientInit ==
    /\ ser = "none"
    /\ releases = 0
    /\ closeCalls = 0
    /\ client = "absent"
    /\ stage = 0
    /\ top = "none"
    /\ op = NoOp
    /\ pc = "idle"
    /\ trace = <<>>
    /\ written = <<>>
    /\ outcome = "none"
    /\ result = None
    /\ printed = <<>>
    /\ owed = <<>>
    /\ lastReadFrom = "none"

Init == ClientInit /\ AppOff

-----------------------------------------------------------------------------
(* Actions *)

\* a new method invocation begins: the replies still outstanding belong to
\* earlier invocations (nothing discards them: the input buffer is never reset)
Aged(q) == [i \in 1..Len(q) |-> "old"]

\* self.ser.write(...): the device will answer the bytes written, in time or
\* late, or it never answers them
Solicit ==
    \E answers \in BOOLEAN :
        owed' = IF answers /\ Len(owed) < MaxOwed THEN Append(owed, "cur") ELSE owed

\* the replies still to come after a read timed out: under an arbitrary
\* caller the device may answer late, in the application's runs it answers
\* within the timeout or not at all
Overdue(q) == IF handler = "off" THEN q ELSE <<>>

\* self.ser.readline() returning line: the oldest outstanding reply, or
\* nothing when no reply arrives within the timeout
Receive(line) ==
    IF line = <<>>
    THEN /\ lastReadFrom' = "timeout"
         /\ owed' = Overdue(owed)
    ELSE /\ owed # <<>>
         /\ lastReadFrom' = Head(owed)
         /\ owed' = Tail(owed)

\* what readline() may return in the run at hand
Readable == IF handler = "off" THEN ReadLines ELSE GuiReadLines

\* a constructor that closes the port when one of its method calls raises
PortClosedOnInitError(o) ==
    IF client = "constructing" /\ o # "return" THEN "closed" ELSE ser

\* the port after a method ended with o: no method and no exception path of
\* __init__ closes it
PortAfter(o) == ser

\* a method ends, returning (o = "return") or raising o: inside __init__ a
\* return goes back to the constructor and an exception ends the constructor
Finish(o, r, p) ==
    /\ printed' = printed \o p
    /\ ser' = PortAfter(o)
    /\ UNCHANGED <<stage, op>>
    /\ IF client = "constructing"
       THEN IF o = "return"
            THEN /\ pc' = "ret"
                 /\ UNCHANGED <<client, outcome, result>>
            ELSE /\ pc' = "idle"
                 /\ client' = "failed"
                 /\ outcome' = o
                 /\ result' = None
       ELSE /\ pc' = "idle"
            /\ outcome' = o
            /\ result' = r
            /\ UNCHANGED client

\* __init__: serial.Serial(...) opens the port, then self.set_filter() is called
Construct ==
    /\ client = "absent"
    /\ top = "none"
    /\ ser' = "open"
    /\ client' = "constructing"
    /\ stage' = 1
    /\ top' = "__init__"
    /\ op' = InitOp(1)
    /\ pc' = "start"
    /\ UNCHANGED <<releases, closeCalls, trace, written, outcome, result, printed,
                   owed, lastReadFrom>>

\* __init__: serial.Serial(...) cannot open the port and raises
ConstructOpenFails ==
    /\ client = "absent"
    /\ top = "none"
    /\ client' = "failed"
    /\ top' = "__init__"
    /\ outcome' = "SerialException"
    /\ UNCHANGED <<ser, releases, closeCalls, stage, op, pc, trace, written, result,
                   printed, owed, lastReadFrom>>

\* __init__: the previous method returned, the next one is called
InitNext ==
    /\ client = "constructing"
    /\ pc = "ret"
    /\ stage < InitLen
    /\ stage' = stage + 1
    /\ op' = InitOp(stage + 1)
    /\ pc' = "start"
    /\ trace' = <<>>
    /\ owed' = Aged(owed)
    /\ lastReadFrom' = "none"
    /\ UNCHANGED <<ser, releases, closeCalls, client, top, written, outcome, result, printed>>

\* __init__: the last method returned, the constructor returns the client
InitDone ==
    /\ client = "constructing"
    /\ pc = "ret"
    /\ stage = InitLen
    /\ client' = "live"
    /\ pc' = "idle"
    /\ outcome' = "return"
    /\ UNCHANGED <<ser, releases, closeCalls, stage, top, op, trace, written, result,
                   printed, owed, lastReadFrom>>

\* the caller calls a method of the client
Call(c) ==
    /\ client = "live"
    /\ pc = "idle"
    /\ top' = c.name
    /\ op' = c
    /\ pc' = "start"
    /\ trace' = <<>>
    /\ written' = <<>>
    /\ outcome' = "none"
    /\ result' = None
    /\ printed' = <<>>
    /\ owed' = Aged(owed)
    /\ lastReadFrom' = "none"
    /\ UNCHANGED <<ser, releases, closeCalls, client, stage>>

\* self.ser.write(command + CR + LF); a method without a branch for its
\* arguments falls through and returns None; write() on a closed port raises
WriteCommand ==
    /\ pc = "start"
    /\ UNCHANGED <<releases, closeCalls, top, lastReadFrom>>
    /\ IF ~DoesIO(op)
       THEN /\ Finish("return", None, <<>>)
            /\ UNCHANGED <<trace, written, owed>>
       ELSE IF ser # "open"
       THEN /\ Finish("PortNotOpenError", None, <<>>)
            /\ UNCHANGED <<trace, written, owed>>
       ELSE /\ trace' = Append(trace, W(Command(op)))
            /\ written' = Append(written, Command(op))
            /\ Solicit
            /\ pc' = "ack"
            /\ UNCHANGED <<ser, client, stage, op, outcome, result, printed>>

\* line = self.ser.readline().strip(); if line != ACK: raise PfeifferException
ReadAck ==
    /\ pc = "ack"
    /\ UNCHANGED <<releases, closeCalls, top, written>>
    /\ \E line \in Readable :
        /\ Receive(line)
        /\ trace' = Append(trace, R(line))
        /\ IF ChecksAck(op) /\ Strip(line) # <<ACK>>
           THEN Finish("PfeifferException", None, <<>>)
           ELSE /\ pc' = "enq"
                /\ UNCHANGED <<ser, client, stage, op, outcome, result, printed>>

\* self.ser.write(ENQ)
WriteENQ ==
    /\ pc = "enq"
    /\ trace' = Append(trace, W(<<ENQ>>))
    /\ Solicit
    /\ pc' = "resp"
    /\ UNCHANGED <<ser, releases, closeCalls, client, stage, top, op, written,
                   outcome, result, printed, lastReadFrom>>

\* line = self.ser.readline().strip().decode('utf-8') and the method's
\* interpretation of it
ReadResponse ==
    /\ pc = "resp"
    /\ UNCHANGED <<releases, closeCalls, top, written>>
    /\ \E line \in Readable :
        /\ Receive(line)
        /\ trace' = Append(trace, R(line))
        /\ LET r == Parse(op, line)
           IN  Finish(r.outcome, r.result, r.printed)

\* close(): self.ser.close()
Close ==
    /\ client = "live"
    /\ pc = "idle"
    /\ closeCalls < MaxCloses
    /\ closeCalls' = closeCalls + 1
    /\ releases' = releases + Released(ser)
    /\ ser' = "closed"
    /\ top' = "close"
    /\ op' = Op("close", 0, 0)
    /\ trace' = <<>>
    /\ written' = <<>>
    /\ outcome' = "return"
    /\ result' = None
    /\ printed' = <<>>
    /\ owed' = <<>>
    /\ lastReadFrom' = "none"
    /\ UNCHANGED <<client, stage, pc>>

Next ==
    \/ Construct /\ UNCHANGED gvars
    \/ ConstructOpenFails /\ UNCHANGED gvars
    \/ InitNext /\ UNCHANGED gvars
    \/ InitDone /\ UNCHANGED gvars
    \/ \E c \in Calls : Call(c) /\ UNCHANGED gvars
    \/ WriteCommand /\ UNCHANGED gvars
    \/ ReadAck /\ UNCHANGED gvars
    \/ WriteENQ /\ UNCHANGED gvars
    \/ ReadResponse /\ UNCHANGED gvars
    \/ Close /\ UNCHANGED gvars

Spec == Init /\ [][Next]_vars

\* the exceptions a call of the client can raise
Errors ==
    {"PfeifferException", "ValueError", "KeyError", "UnicodeDecodeError",
     "PortNotOpenError", "SerialException"}

-----------------------------------------------------------------------------
(* The application around the client: cont_TPG261_Single_Pfieffer_Gauge_V2.py *)

\* the client calls of the startup code, in order
MainCall(k) ==
    CASE k \in {1, 2} -> Op("get_pressure", 1, 0)
      [] k \in {3, 4} -> Op("get_gauge_type", 0, 0)
      [] k \in {5, 6} -> Op("get_calibration_factor", 0, 0)

MainLen == 6

\* the client calls of one cycle of update, in order
UpdateCall(k) ==
    CASE k \in {1, 2} -> Op("get_pressure", 1, 0)
      [] k \in {3, 4} -> Op("get_calibration_factor", 0, 0)

UpdateLen == 4

\* read_only[...].set(...[i]) of the startup code: the k-th call's result r
MainStored(ro, k, r) ==
    CASE k = 1 -> [ro EXCEPT !.pressure = r[2], !.pstatus = r[1]]
      [] k = 2 -> [ro EXCEPT !.state = r[1]]
      [] k = 3 -> [ro EXCEPT !.sensor1 = r[1]]
      [] k = 4 -> [ro EXCEPT !.sensor2 = r[2]]
      [] k = 5 -> [ro EXCEPT !.cal_g1 = r[1]]
      [] k = 6 -> [ro EXCEPT !.cal_g2 = r[2]]

\* read_only[...].set(...[i]) of update: the k-th call's result r
UpdateStored(ro, k, r) ==
    CASE k = 1 -> [ro EXCEPT !.pressure = r[2], !.pstatus = r[1]]
      [] k = 2 -> [ro EXCEPT !.state = r[1]]
      [] k = 3 -> [ro EXCEPT !.cal_g1 = r[1]]
      [] k = 4 -> [ro EXCEPT !.cal_g2 = r[2]]

\* data_update: P_list and state_list each get the current variable
data_update(ro) ==
    Append(samples, [P |-> ro.pressure, state |-> ro.state, pstatus |-> ro.pstatus])

\* ready = all(f'{controller} is ready\n' in lines for controller in expected_controllers)
AllReady(lines) ==
    \A c \in Controllers : \E i \in 1..Len(lines) : lines[i] = ReadyLine(c)

\* the ready line of controller c is in the marker
InMarker(c) == \E i \in 1..Len(marker) : marker[i] = ReadyLine(c)

\* a quit handler that opens the marker for appending
ClearedByAppending(lines) == lines

\* open('controller_ready.txt', 'w'); f.write('')
Cleared(lines) == <<>>

\* update rescheduling itself although an exchange raised
TimerAfterErrorRetry == TRUE

\* an exception leaves update before its last statement, root.after
TimerAfterError == FALSE

\* callbacks dispatched while another one is still running
DispatchableAnytime == handler \in {"none", "update", "cal_g1", "cal_g2"}

\* the event loop calls a callback only when no other callback is running
Dispatchable == handler = "none"

\* a statement that is not a client call leaves the client as it is
Aside == UNCHANGED cvars

\* the code that called the client is left: the call it made last is over
\* and nothing of it is kept but how it ended
Return ==
    /\ op' = NoOp
    /\ trace' = <<>>
    /\ written' = <<>>
    /\ result' = None
    /\ printed' = <<>>
    /\ lastReadFrom' = "none"
    /\ UNCHANGED <<ser, releases, closeCalls, client, stage, top, pc, outcome, owed>>

\* a step of the client inside the code that called it
ClientStep ==
    /\ handler \in {"main", "update", "cal_g1", "cal_g2"}
    /\ \/ Construct
       \/ ConstructOpenFails
       \/ InitNext
       \/ InitDone
       \/ WriteCommand
       \/ ReadAck
       \/ WriteENQ
       \/ ReadResponse
    /\ UNCHANGED gvars

\* the client is constructed: the first reading is requested
MainStart ==
    /\ handler = "main"
    /\ hstep = 0
    /\ Call(MainCall(1))
    /\ hstep' = 1
    /\ UNCHANGED <<handler, timer, read_only, samples, marker, bpc>>

\* a call of the startup code returned: its value is stored, the next call made
MainStore ==
    /\ handler = "main"
    /\ hstep \in 1..MainLen
    /\ pc = "idle"
    /\ outcome = "return"
    /\ read_only' = MainStored(read_only, hstep, result)
    /\ hstep' = hstep + 1
    /\ IF hstep < MainLen THEN Call(MainCall(hstep + 1)) ELSE Return
    /\ UNCHANGED <<handler, timer, samples, marker, bpc>>

\* the constructor or a call of the startup code raised: the program ends
MainCrash ==
    /\ handler = "main"
    /\ \/ hstep = 0 /\ client = "failed"
       \/ hstep \in 1..MainLen /\ pc = "idle" /\ outcome \in Errors
    /\ handler' = "dead"
    /\ Aside
    /\ UNCHANGED <<hstep, timer, read_only, samples, marker, bpc>>

\* with open('controller_ready.txt', 'a') as f: f.write('TPG261_Controller is ready\n')
MainReady ==
    /\ handler = "main"
    /\ hstep = MainLen + 1
    /\ marker' = Append(marker, ReadyLine("TPG261_Controller"))
    /\ hstep' = hstep + 1
    /\ Aside
    /\ UNCHANGED <<handler, timer, read_only, samples, bpc>>

\* another controller of expected_controllers appends its ready line (the
\* others in the order of the list: their order does not matter to the wait)
SiblingReady ==
    /\ handler = "main"
    /\ hstep \in {MainLen + 1, MainLen + 2}
    /\ \E k \in 1..Len(expected_controllers) :
        /\ expected_controllers[k] # "TPG261_Controller"
        /\ ~InMarker(expected_controllers[k])
        /\ \A j \in 1..(k - 1) :
              expected_controllers[j] = "TPG261_Controller"
              \/ InMarker(expected_controllers[j])
        /\ marker' = Append(marker, ReadyLine(expected_controllers[k]))
    /\ Aside
    /\ UNCHANGED <<handler, hstep, timer, read_only, samples, bpc>>

\* while not ready: ...; then the window is built, the traces are registered
\* and root.after(0, update) schedules the first cycle
MainPass ==
    /\ handler = "main"
    /\ hstep = MainLen + 2
    /\ AllReady(marker)
    /\ handler' = "none"
    /\ hstep' = 0
    /\ timer' = TRUE
    /\ Aside
    /\ UNCHANGED <<read_only, samples, marker, bpc>>

\* the timer fires: update starts with its first reading
UpdateStart ==
    /\ Dispatchable
    /\ timer
    /\ Len(samples) < MaxSamples
    /\ timer' = FALSE
    /\ handler' = "update"
    /\ hstep' = 1
    /\ Call(UpdateCall(1))
    /\ UNCHANGED <<read_only, samples, marker, bpc>>

\* a call of update returned: its value is stored, the next call made
UpdateStore ==
    /\ handler = "update"
    /\ hstep \in 1..(UpdateLen - 1)
    /\ pc = "idle"
    /\ outcome = "return"
    /\ read_only' = UpdateStored(read_only, hstep, result)
    /\ hstep' = hstep + 1
    /\ Call(UpdateCall(hstep + 1))
    /\ UNCHANGED <<handler, timer, samples, marker, bpc>>

\* the last call of update returned: data_update(), the plot update, which
\* may raise, and as the last statement root.after(dt, update)
UpdateFinish ==
    /\ handler = "update"
    /\ hstep = UpdateLen
    /\ pc = "idle"
    /\ outcome = "return"
    /\ read_only' = UpdateStored(read_only, hstep, result)
    /\ samples' = data_update(read_only')
    /\ \E plotted \in BOOLEAN : timer' = plotted
    /\ handler' = "none"
    /\ hstep' = 0
    /\ Return
    /\ UNCHANGED <<marker, bpc>>

\* a call of update raised: the event loop reports the exception and goes on
UpdateFail ==
    /\ handler = "update"
    /\ pc = "idle"
    /\ outcome \in Errors
    /\ timer' = TimerAfterError
    /\ handler' = "none"
    /\ hstep' = 0
    /\ Return
    /\ UNCHANGED <<read_only, samples, marker, bpc>>

\* input_var['cal_g1'] or ['cal_g2'] is written: its trace callback calls
\* set_calibration_factor(gauge, value)
CalTrace(gauge, x) ==
    /\ Dispatchable
    /\ handler' = IF gauge = 1 THEN "cal_g1" ELSE "cal_g2"
    /\ hstep' = 1
    /\ Call(Op("set_calibration_factor", gauge, x))
    /\ UNCHANGED <<timer, read_only, samples, marker, bpc>>

\* the trace callback returns or raises: back to the event loop
CalDone ==
    /\ handler \in {"cal_g1", "cal_g2"}
    /\ pc = "idle"
    /\ handler' = "none"
    /\ hstep' = 0
    /\ Return
    /\ UNCHANGED <<timer, read_only, samples, marker, bpc>>

\* _quit, from the Quit button or the window-close event: TPG261.close(),
\* then the data is saved, which may raise, then the marker is cleared and
\* the window destroyed
Quit(route, saved) ==
    /\ Dispatchable
    /\ Close
    /\ IF saved
       THEN /\ marker' = Cleared(marker)
            /\ handler' = "done"
            /\ timer' = FALSE
       ELSE UNCHANGED <<marker, handler, timer>>
    /\ UNCHANGED <<hstep, read_only, samples, bpc>>

InitGUI ==
    /\ ClientInit
    /\ handler = "main"
    /\ hstep = 0
    /\ timer = FALSE
    /\ read_only = NoData
    /\ samples = <<>>
    /\ marker = <<>>
    /\ bpc = [c \in Controllers |-> "off"]

NextGUI ==
    \/ ClientStep
    \/ MainStart
    \/ MainStore
    \/ MainCrash
    \/ MainReady
    \/ SiblingReady
    \/ MainPass
    \/ UpdateStart
    \/ UpdateStore
    \/ UpdateFinish
    \/ UpdateFail
    \/ \E gauge \in {1, 2}, x \in CalInputs : CalTrace(gauge, x)
    \/ CalDone
    \/ \E route \in {"button", "window"}, saved \in BOOLEAN : Quit(route, saved)

SpecGUI == InitGUI /\ [][NextGUI]_vars

-----------------------------------------------------------------------------
(* The startup handshake of the four controllers over the marker: each runs *)
(* the code of lines 287-302 and, once its window is up, may run _quit      *)

\* everything but the marker and the controllers' positions
hvars ==
    <<ser, releases, closeCalls, client, stage, top, op, pc, trace, written,
      outcome, result, printed, owed, lastReadFrom,
      handler, hstep, timer, read_only, samples>>

\* with open('controller_ready.txt', 'a') as f: f.write('... is ready\n')
BReady(c) ==
    /\ bpc[c] = "start"
    /\ marker' = Append(marker, ReadyLine(c))
    /\ bpc' = [bpc EXCEPT ![c] = "reading"]
    /\ UNCHANGED hvars

\* lines = f.readlines(); ready = all(...): the loop is left or goes to sleep
BRead(c) ==
    /\ bpc[c] = "reading"
    /\ bpc' = [bpc EXCEPT ![c] = IF AllReady(marker) THEN "passed" ELSE "sleeping"]
    /\ UNCHANGED <<marker, hvars>>

\* print('Waiting for all controllers to be ready'); time.sleep(0.01)
BSleep(c) ==
    /\ bpc[c] = "sleeping"
    /\ bpc' = [bpc EXCEPT ![c] = "reading"]
    /\ UNCHANGED <<marker, hvars>>

\* _quit of a controller that left the loop: the marker is cleared
BQuit(c) ==
    /\ bpc[c] = "passed"
    /\ marker' = Cleared(marker)
    /\ bpc' = [bpc EXCEPT ![c] = "gone"]
    /\ UNCHANGED hvars

InitBarrier ==
    /\ ClientInit
    /\ handler = "off"
    /\ hstep = 0
    /\ timer = FALSE
    /\ read_only = NoData
    /\ samples = <<>>
    /\ marker = <<>>
    /\ bpc = [c \in Controllers |-> "start"]

NextBarrier ==
    \/ \E c \in Controllers : BReady(c)
    \/ \E c \in Controllers : BRead(c)
    \/ \E c \in Controllers : BSleep(c)
    \/ \E c \in Controllers : BQuit(c)

\* every controller process that can take a step of its startup code
\* eventually takes it; nobody has to quit
FairBarrier ==
    \A c \in Controllers :
        WF_vars(BReady(c)) /\ WF_vars(BRead(c)) /\ WF_vars(BSleep(c))

SpecBarrier == InitBarrier /\ [][NextBarrier]_vars /\ FairBarrier

TypeOK ==
    /\ ser \in {"none", "open", "closed"}
    /\ releases \in 0..MaxCloses
    /\ closeCalls \in 0..MaxCloses
    /\ client \in {"absent", "constructing", "live", "failed"}
    /\ stage \in 0..InitLen
    /\ pc \in {"idle", "start", "ack", "enq", "resp", "ret"}
    /\ outcome \in {"none", "return", "PfeifferException", "ValueError", "KeyError",
                    "UnicodeDecodeError", "PortNotOpenError", "SerialException"}
    /\ owed \in UNION {[1..n -> {"old", "cur"}] : n \in 0..MaxOwed}
    /\ lastReadFrom \in {"none", "timeout", "old", "cur"}
    /\ handler \in {"off", "main", "none", "update", "cal_g1", "cal_g2", "dead", "done"}
    /\ hstep \in 0..(MainLen + 2)
    /\ timer \in BOOLEAN
    /\ Len(samples) <= MaxSamples
    /\ Len(marker) <= Len(expected_controllers)
    /\ bpc \in [Controllers -> {"off", "start", "reading", "sleeping", "passed", "gone"}]

-----------------------------------------------------------------------------
(* Vocabulary of the properties *)

\* the acknowledgement line of the current exchange was read
AckWasRead == Len(trace) >= 2 /\ trace[2].kind = "read"

\* ... and, stripped, it is the single ACK byte
AckPositive == AckWasRead /\ Strip(trace[2].data) = <<ACK>>

\* the response line of the current exchange was read
ResponseWasRead == Len(trace) >= 4 /\ trace[4].kind = "read"

\* the decoded fields of the response line that was read
ResponseFields == Split(Strip(trace[4].data))

EnqWritten == \E i \in 1..Len(trace) : trace[i] = W(<<ENQ>>)

\* number of comma-separated fields each operation expects in its response
Arity(c) == IF c.name \in {"set_units", "set_display_resolution"} THEN 1 ELSE 2

\* C1: in every operation, when the acknowledgement line read after the
\* command is anything but the single ACK byte, the operation raises
\* PfeifferException and no ENQ is written.
C1_NonAckRaisesBeforeEnq ==
    (AckWasRead /\ ~AckPositive) => (outcome = "PfeifferException" /\ ~EnqWritten)

\* C2: the channel trace of every operation is one block: one command write
\* ending in CR LF, one acknowledgement read, then, exactly when the
\* acknowledgement was positive, one ENQ write and one response read; a
\* finished operation leaves a complete block and nothing more.
C2_TraceIsExchangeBlocks ==
    /\ Len(trace) <= 4
    /\ Len(trace) >= 1 =>
         /\ trace[1].kind = "write"
         /\ Len(trace[1].data) >= 3
         /\ SubSeq(trace[1].data, Len(trace[1].data) - 1, Len(trace[1].data)) = <<CR, LF>>
         /\ trace[1].data = written[Len(written)]
    /\ Len(trace) >= 2 => trace[2].kind = "read"
    /\ Len(trace) >= 3 => (AckPositive /\ trace[3] = W(<<ENQ>>))
    /\ Len(trace) >= 4 => trace[4].kind = "read"
    /\ (pc \in {"idle", "ret"} /\ trace # <<>>) =>
         Len(trace) = (IF AckPositive THEN 4 ELSE 2)

\* C3: a response line whose number of comma-separated fields differs from
\* the arity the operation expects makes the operation raise PfeifferException.
C3_FieldCountRaisesProtocolError ==
    (/\ ResponseWasRead
     /\ Decodable(Strip(trace[4].data))
     /\ Len(ResponseFields) # Arity(op))
        => outcome = "PfeifferException"

\* C4: when a read of the channel times out (returns no bytes), at the
\* acknowledgement or at the response, the operation ends raising
\* PfeifferException.
C4_TimeoutRaisesProtocolError ==
    (Len(trace) \in {2, 4} /\ trace[Len(trace)] = R(<<>>))
        => outcome = "PfeifferException"

\* gauge index in {1,2}, unit code in {0,1,2}, filter codes in {0,1,2}
ValidCommand(c) ==
    /\ c.name \in {"get_pressure", "set_calibration_factor"} => c.a \in {1, 2}
    /\ c.name = "set_units" => c.a \in 0..2
    /\ c.name = "set_filter" => (c.a \in 0..2 /\ c.b \in 0..2)

\* a decimal code: digits only
IsCode(f, codes) == f # <<>> /\ AllDigits(f) /\ DigitsVal(f) \in codes

\* a response line of the expected arity, terminated by CR LF, whose codes are in range
WellFormed(c, line) ==
    LET s == SubSeq(line, 1, Len(line) - 2)
        f == Split(s)
    IN  /\ Len(line) >= 2
        /\ SubSeq(line, Len(line) - 1, Len(line)) = <<CR, LF>>
        /\ \A i \in 1..Len(s) : s[i] \notin {HI, SP, CR, LF}
        /\ Len(f) = Arity(c)
        /\ c.name = "get_pressure" => (IsCode(f[1], 0..6) /\ FloatOk(f[2]))
        /\ c.name = "set_units" => IsCode(f[1], 0..2)
        /\ c.name = "set_filter" => (IsCode(f[1], 0..2) /\ IsCode(f[2], 0..2))
        /\ c.name = "set_display_resolution" => IsCode(f[1], 2..3)

\* C5: a valid command, a positive acknowledgement and a well-formed
\* response line make the operation return without raising; the getters and
\* set_calibration_factor return the fields of the response.
C5_WellFormedExchangeReturns ==
    (/\ ResponseWasRead
     /\ ValidCommand(op)
     /\ AckPositive
     /\ WellFormed(op, trace[4].data))
        => /\ outcome \notin Errors
           /\ client # "failed"
           /\ IF top = "__init__" THEN pc \in {"ret", "idle"}
              ELSE /\ pc = "idle"
                   /\ outcome = "return"
                   /\ op.name \in {"get_gauge_type", "get_calibration_factor"} =>
                        result = ResponseFields
                   /\ op.name = "set_calibration_factor" =>
                        result = <<ResponseFields[op.a]>>
                   /\ op.name = "get_pressure" => Len(result) = 2

\* the round trip of the specification: PR1, ACK, "0,1.0e-5" gives ("Passed", 1.0e-5)
C5_Witness ==
    /\ op = Op("get_pressure", 1, 0)
    /\ AckPositive
    /\ ResponseWasRead
    /\ trace[4].data = <<"0", ",", "1", ".", "0", "e", "-", "5", CR, LF>>
    /\ outcome = "return"
    /\ result = <<"Passed", <<1, -5>>>>

\* the four commands of the constructor, in order
InitCommands ==
    << <<"F", "I", "L", ",", "1", ",", "1", CR, LF>>,
       <<"C", "A", "L", ",", "1", ".", "0", "0", "0", ",", "1", ".", "0", "0", "0", CR, LF>>,
       <<"C", "A", "L", ",", "1", ".", "0", "0", "0", ",", "1", ".", "0", "0", "0", CR, LF>>,
       <<"D", "C", "D", ",", "3", CR, LF>> >>

\* C6: the constructor writes FIL,1,1 then CAL,1.000,1.000 twice then DCD,3,
\* each once and in this order; when one of these exchanges fails the
\* constructor fails with that error and none of the later commands is written.
C6_InitSequence ==
    top = "__init__" =>
        /\ \E k \in 0..4 : written = SubSeq(InitCommands, 1, k)
        /\ (client = "live") => (written = InitCommands /\ outcome = "return")
        /\ (client = "failed" /\ ser = "open") =>
             /\ outcome \in Errors
             /\ pc = "idle"
             /\ written # <<>>
             /\ trace # <<>>
             /\ trace[1] = W(written[Len(written)])
             /\ AckPositive => ResponseWasRead
        /\ (client = "constructing" /\ Len(written) >= 1 /\ trace # <<>>) =>
             trace[1] = W(written[Len(written)])

C6_Witness ==
    /\ top = "__init__"
    /\ client = "live"
    /\ written = InitCommands
    /\ Len(trace) = 4

\* C7: set_calibration_factor(1, x) writes CAL,<x>,1.000 and returns the first
\* echoed field; set_calibration_factor(2, x) writes CAL,1.000,<x> and returns
\* the second echoed field.
C7_CalibrationTargetsOneGauge ==
    (op.name = "set_calibration_factor" /\ op.a \in {1, 2} /\ trace # <<>>) =>
        /\ op.a = 1 =>
             trace[1] = W(<<"C", "A", "L", ",">> \o Fmt3(op.b)
                              \o <<",", "1", ".", "0", "0", "0", CR, LF>>)
        /\ op.a = 2 =>
             trace[1] = W(<<"C", "A", "L", ",", "1", ".", "0", "0", "0", ",">>
                              \o Fmt3(op.b) \o <<CR, LF>>)
        /\ (top = "set_calibration_factor" /\ outcome = "return") =>
             /\ ResponseWasRead
             /\ result = <<ResponseFields[op.a]>>
             /\ Len(ResponseFields) = 2

\* set_calibration_factor(2, 1.2346) wrote CAL,1.000,1.235 and returned the
\* second field of the echo "0.500,1.235"
C7_Witness ==
    /\ op = Op("set_calibration_factor", 2, 12346)
    /\ outcome = "return"
    /\ trace[1].data = <<"C", "A", "L", ",", "1", ".", "0", "0", "0", ",",
                         "1", ".", "2", "3", "5", CR, LF>>
    /\ trace[4].data = <<"0", ".", "5", "0", "0", ",", "1", ".", "2", "3", "5", CR, LF>>
    /\ result = << <<"1", ".", "2", "3", "5">> >>

\* a get_pressure response with a status code in 0..6 and a numeric value
\* was read after a positive acknowledgement
PressureStatusRead ==
    /\ op.name = "get_pressure"
    /\ AckPositive
    /\ ResponseWasRead
    /\ Decodable(Strip(trace[4].data))
    /\ Len(ResponseFields) = 2
    /\ IntOk(ResponseFields[1])
    /\ IntVal(ResponseFields[1]) \in 0..6
    /\ FloatOk(ResponseFields[2])

\* the labels of the status enumeration as the claim lists them
ClaimedLabel ==
    <<"Passed", "Underrange", "Overrange", "Sensor Error", "Sensor Off", "No Sensor",
      "ID Error">>

\* the labels as amended: status 4 is spelled "Sensor off"
AmendedLabel ==
    <<"Passed", "Underrange", "Overrange", "Sensor Error", "Sensor off", "No Sensor",
      "ID Error">>

\* C8 as stated: for every status code 0..6 get_pressure raises no error and
\* returns (label, value) with the labels Passed, Underrange, Overrange,
\* Sensor Error, Sensor Off, No Sensor, ID Error.
C8_StatusLabelsAsClaimed ==
    PressureStatusRead =>
        /\ outcome = "return"
        /\ result = <<ClaimedLabel[IntVal(ResponseFields[1]) + 1],
                      FloatVal(ResponseFields[2])>>

\* C8 amended: the same with the label of status 4 spelled "Sensor off": the
\* status is never an error and the value is returned whatever the status.
C8_StatusLabels ==
    PressureStatusRead =>
        /\ outcome = "return"
        /\ result = <<AmendedLabel[IntVal(ResponseFields[1]) + 1],
                      FloatVal(ResponseFields[2])>>

\* status 4 came back with the value 1 and was returned, not raised
C8_Witness ==
    /\ PressureStatusRead
    /\ trace[4].data = <<"4", ",", "1", CR, LF>>
    /\ outcome = "return"
    /\ result = <<"Sensor off", <<1, 0>>>>
    /\ printed = <<"Sensor off">>

\* C9: after close() every public operation fails with an error before
\* reading anything from the channel, returning no value.
C9_AfterCloseEveryOperationFails ==
    (ser = "closed" /\ top # "close" /\ pc = "idle") =>
        /\ outcome \in Errors
        /\ \A i \in 1..Len(trace) : trace[i].kind # "read"
        /\ result = None

C11_CalibrationQueryIgnoresAck ==
    (op.name = "get_calibration_factor" /\ trace # <<>>) =>
        /\ outcome # "PfeifferException"
        /\ Len(trace) = 1 => pc = "ack"
        /\ Len(trace) = 2 => pc = "enq"
        /\ Len(trace) = 3 => (pc = "resp" /\ trace[3] = W(<<ENQ>>))
        /\ Len(trace) = 4 =>
             /\ pc = "idle"
             /\ trace[3] = W(<<ENQ>>)
             /\ (Decodable(Strip(trace[4].data)) /\ Len(ResponseFields) = 2) =>
                  (outcome = "return" /\ result = ResponseFields)

\* the command was answered NAK, and the two factors were returned all the same
C11_Witness ==
    /\ op.name = "get_calibration_factor"
    /\ Len(trace) = 4
    /\ trace[2] = R(<<NAK, CR, LF>>)
    /\ trace[4] = R(<<"0", ".", "5", "0", "0", ",", "1", ".", "2", "3", "5", CR, LF>>)
    /\ outcome = "return"
    /\ result = << <<"0", ".", "5", "0", "0">>, <<"1", ".", "2", "3", "5">> >>

\* C18: a reply of the device to an earlier operation's command or ENQ is
\* never consumed as the acknowledgement or the response of a later operation.
C18_NoStaleReplyConsumed == lastReadFrom # "old"

\* C19: when an initialization exchange of the constructor fails after the
\* port was opened, the constructor raises without closing the port: the port
\* stays open, unreleased, and there is no client to close it through.
C19_FailedInitLeavesPortOpen ==
    (top = "__init__" /\ stage >= 1 /\ outcome \in Errors) =>
        /\ client = "failed"
        /\ ser = "open"
        /\ releases = 0
        /\ closeCalls = 0
        /\ ~ENABLED Close
        /\ \A c \in Calls : ~ENABLED Call(c)

\* the constructor failed in its third exchange, the port is open
C19_Witness ==
    /\ client = "failed"
    /\ stage = 3
    /\ outcome = "PfeifferException"
    /\ ser = "open"

\* C20: set_calibration_factor with a gauge index other than 1 or 2 does no
\* channel I/O, raises nothing and returns None; the channel and the
\* replies outstanding are as before the call.
C20_UnknownGaugeDoesNothing ==
    [][(op'.name = "set_calibration_factor" /\ op'.a \notin {1, 2}) =>
          /\ trace' = <<>>
          /\ written' = <<>>
          /\ outcome' \notin Errors
          /\ result' = None
          /\ ser' = ser
          /\ releases' = releases
          /\ Len(owed') = Len(owed)
          /\ pc' \in {"start", "idle"}
          /\ pc' = "idle" => outcome' = "return"]_vars

C20_Witness ==
    /\ op = Op("set_calibration_factor", 3, 5000)
    /\ ser = "open"
    /\ pc = "idle"
    /\ outcome = "return"
    /\ result = None
    /\ trace = <<>>

-----------------------------------------------------------------------------
(* The application *)

\* C12: in a run of the application close() is invoked once and no more,
\* however often and by whichever route _quit is triggered, also when saving
\* fails after the port was closed; once the window is gone it was invoked
C12_CloseInvokedOnce ==
    /\ closeCalls <= 1
    /\ handler = "done" => closeCalls = 1

\* between the write of a command and the end of its exchange
Exchanging == pc \in {"ack", "enq", "resp"}

\* the callbacks of the event loop that use the client
Callbacks == {"update", "cal_g1", "cal_g2"}

\* the step adds to the trace the one event the exchange is at
NextEventOfExchange ==
    /\ Len(trace') = Len(trace) + 1
    /\ SubSeq(trace', 1, Len(trace)) = trace
    /\ trace'[Len(trace')] = IF pc = "enq" THEN W(<<ENQ>>) ELSE R(trace'[Len(trace')].data)

\* C13: no two exchanges overlap: while an exchange is under way every step
\* is the next event of that exchange, made by the code that started it, and
\* no other command is written and no close() made; a callback starts only
\* from the idle event loop and ends only between exchanges; close() is
\* called only from the idle event loop
C13_NoOverlappingExchanges ==
    [][/\ Exchanging =>
            /\ handler' = handler
            /\ op' = op
            /\ written' = written
            /\ closeCalls' = closeCalls
            /\ ser' = ser
            /\ NextEventOfExchange
       /\ (handler' \in Callbacks /\ handler' # handler) =>
            handler = "none" /\ pc = "idle"
       /\ (handler \in Callbacks /\ handler' # handler) =>
            handler' = "none" /\ pc = "idle" /\ pc' = "idle"
       /\ closeCalls' # closeCalls => handler = "none" /\ pc = "idle"
      ]_vars

\* a trace callback is in the middle of its exchange while the timer of
\* update is due
C13_Witness ==
    /\ handler = "cal_g1"
    /\ pc = "resp"
    /\ timer
    /\ samples # <<>>

\* C14, as claimed: every write to the marker adds a line to the lines it
\* holds, and no step of the client touches it
C14_MarkerAppendOnly ==
    [][/\ marker' # marker =>
            /\ Len(marker') = Len(marker) + 1
            /\ SubSeq(marker', 1, Len(marker)) = marker
       /\ pc # "idle" => marker' = marker
      ]_vars

\* C14: the startup code only appends ready lines to the marker, the quit
\* handler, when it gets as far, empties it, and no step of the client
\* touches it
C14_MarkerAppendedOrCleared ==
    [][/\ marker' # marker =>
            \/ /\ handler = "main"
               /\ \E c \in Controllers : marker' = Append(marker, ReadyLine(c))
            \/ /\ handler' = "done"
               /\ closeCalls' = closeCalls + 1
               /\ marker' = <<>>
       /\ (handler' = "done" /\ handler # "done") => marker' = <<>>
       /\ pc # "idle" => marker' = marker
      ]_vars

\* the quit handler ran to its end: the marker that held the four ready
\* lines is empty
C14_Witness ==
    /\ handler = "done"
    /\ closeCalls = 1
    /\ marker = <<>>

\* C16: the state logged with a sample is the status of the reading the
\* sample's pressure was taken from
C16_SampleFromOneResponse ==
    \A i \in 1..Len(samples) : samples[i].state = samples[i].pstatus

\* no cycle of update is scheduled or running
PollingStopped == ~timer /\ handler \notin {"main", "update"}

\* C17: update schedules its next run only as the last step of a cycle in
\* which its four calls returned and the sample was appended; when a call
\* raised nothing is scheduled; once polling stopped it never restarts
C17_PollingStopsAfterFailure ==
    [][/\ (timer' /\ ~timer /\ handler # "main") =>
            /\ handler = "update"
            /\ hstep = UpdateLen
            /\ pc = "idle"
            /\ outcome = "return"
            /\ samples' = Append(samples, samples'[Len(samples')])
            /\ handler' = "none"
       /\ (handler = "update" /\ pc = "idle" /\ outcome \in Errors) => ~timer'
       /\ PollingStopped => PollingStopped'
      ]_vars

\* after a cycle that logged a sample, a call of update raised: the event
\* loop is idle and no cycle is scheduled
C17_Witness ==
    /\ handler = "none"
    /\ ~timer
    /\ top \in {"get_pressure", "get_calibration_factor"}
    /\ outcome \in Errors
    /\ Len(samples) = 1

\* every controller has appended its ready line
AllAppended == \A c \in Controllers : bpc[c] \notin {"off", "start"}

\* every controller has left the wait loop
AllPassed == \A c \in Controllers : bpc[c] \in {"passed", "gone"}

\* C15: once all four controllers have appended their ready line, every
\* controller eventually leaves the wait loop
C15_BarrierLiveness == AllAppended ~> AllPassed

====
